---- MODULE Spec2Model ----
(***************************************************************************)
(* Sign-In With Ethereum front end (web3_auth).                            *)
(*                                                                         *)
(* The repository holds two variants of the same application:              *)
(*   variant "A"  src/src/App.tsx       AuthPage with a manual sign button *)
(*   variant "B"  src/unnamed/part_000  AppContent with an auto-sign effect*)
(* Both share the WalletProvider component (the connection state machine). *)
(*                                                                         *)
(* JavaScript runs handlers and promise continuations to completion, and   *)
(* React commits a render before the next event is dispatched, so every    *)
(* action below is one event (a click, a wallet notification, a wallet     *)
(* response) together with all the promise continuations it triggers.  An  *)
(* effect runs after the render that schedules it and before any other     *)
(* event: it is a step of its own that nothing can overtake.               *)
(* Optional values (T | null) are sequences of length at most one.         *)
(***************************************************************************)
EXTENDS Integers, Sequences, FiniteSets, Bags, TLC

VARIABLES
    variant,      \* which of the two application files is running
    hasEthereum,  \* window.ethereum is present
    mounted,      \* WalletProvider is mounted
    state,        \* WalletState (useState in WalletProvider)
    provider,     \* the ethers.BrowserProvider handle (useState in WalletProvider)
    authStatus,   \* "idle" | "signing" | "authenticated"
    showModal,    \* the wallet selection modal is requested
    ops,          \* bag of connect / signMessage calls suspended at an await
    effectPending,\* a render changed isConnected and the effect of AppContent has not run yet
    last          \* the most recent event, whether the wallet was connected before it,
                  \* what signMessage returned in it, and whether it repeats the
                  \* event before it

vars ==
    <<variant, hasEthereum, mounted, state, provider, authStatus, showModal, ops,
      effectPending, last>>

----------------------------------------------------------------------------
\* Bounds of the model

MaxOps == 2        \* operations suspended at an await at the same time

ChainIds == {1, 137}

Null == <<>>
Some(v) == <<v>>
Val(o) == o[1]

\* account lists the wallet may report
AccountLists == {<<>>, <<"0xAAAA">>, <<"0xBBBB", "0xAAAA">>}
NonEmptyAccountLists == {l \in AccountLists : Len(l) > 0}

\* failures thrown by the wallet: the EIP-1193 user rejection, and failures
\* that carry another code and no (or an empty) message
UserRejected == [code |-> Some(4001), message |-> Some("User rejected the request.")]
InternalError == [code |-> Some(-32603), message |-> Null]
EmptyError == [code |-> Null, message |-> Some("")]
WalletErrors == {UserRejected, InternalError, EmptyError}

Signature == "0xSIGNATURE"

----------------------------------------------------------------------------
\* WalletProvider: the state transformers of the connection state machine

InitialState ==
    [address |-> Null, chainId |-> Null, isConnected |-> FALSE,
     isLoading |-> FALSE, error |-> Null]

\* JavaScript truthiness of an optional string and of an optional number
TruthyStr(o) == o # Null /\ Val(o) # ""
TruthyNum(o) == o # Null /\ Val(o) # 0

MetaMaskMissing ==
    [code |-> Null,
     message |-> Some("MetaMask is not installed. Please install MetaMask to continue.")]

WalletConnectMissing ==
    [code |-> Null,
     message |-> Some("WalletConnect requires a Web3 provider. Install MetaMask as fallback.")]

\* the MetaMask message for every wallet type
ProviderMissingAlwaysMetaMask(walletType) ==
    IF walletType = "metamask" THEN MetaMaskMissing ELSE MetaMaskMissing

ProviderMissing(walletType) ==
    IF walletType = "metamask" THEN MetaMaskMissing ELSE WalletConnectMissing

\* window.location.host and window.location.origin of the page
Host == "localhost:3000"
Origin == "http://localhost:3000"

\* Math.random().toString(36).substring(2, 15) and new Date().toISOString():
\* one value each, nothing in the program reads them back
Nonces == {"4fzyo82mvyr"}
Timestamps == {"2026-01-01T00:00:00.000Z"}

\* the challenge with the chain id line fixed to mainnet
generateSiweMessageMainnet(address, chainId, nonce, issuedAt) ==
    << Host \o " wants you to sign in with your Ethereum account:",
       address,
       "",
       "Sign in to verify your wallet ownership",
       "",
       "URI: " \o Origin,
       "Version: 1",
       "Chain ID: 1",
       "Nonce: " \o nonce,
       "Issued At: " \o issuedAt >>

\* the template literal of generateSiweMessage, one element per line; nonce and
\* issuedAt are the values Math.random and Date yield in the call
generateSiweMessage(address, chainId, nonce, issuedAt) ==
    << Host \o " wants you to sign in with your Ethereum account:",
       address,
       "",
       "Sign in to verify your wallet ownership",
       "",
       "URI: " \o Origin,
       "Version: 1",
       "Chain ID: " \o ToString(chainId),
       "Nonce: " \o nonce,
       "Issued At: " \o issuedAt >>

\* the network table with the labels of Polygon and Mumbai exchanged
getNetworkNameSwapped(chainId) ==
    CASE chainId = 1 -> "Ethereum Mainnet"
      [] chainId = 5 -> "Goerli"
      [] chainId = 11155111 -> "Sepolia"
      [] chainId = 137 -> "Mumbai"
      [] chainId = 80001 -> "Polygon"
      [] OTHER -> "Chain " \o ToString(chainId)

\* networks[chainId] || `Chain ${chainId}`
getNetworkName(chainId) ==
    CASE chainId = 1 -> "Ethereum Mainnet"
      [] chainId = 5 -> "Goerli"
      [] chainId = 11155111 -> "Sepolia"
      [] chainId = 137 -> "Polygon"
      [] chainId = 80001 -> "Mumbai"
      [] OTHER -> "Chain " \o ToString(chainId)

\* Number(network.chainId): bigint to double, exact for every chain id below
\* 2^53 and so for every integer of this model (below 2^31)
NumberOf(n) == n

\* the last account of the list in place of the first
connectResultLast(accounts, network) ==
    [address |-> accounts[Len(accounts)], chainId |-> NumberOf(network)]

connectResult(accounts, network) ==
    [address |-> accounts[1], chainId |-> NumberOf(network)]

connectStart(prev) == [prev EXCEPT !.isLoading = TRUE, !.error = Null]

connectSuccess(result) ==
    [address |-> Some(result.address), chainId |-> Some(result.chainId),
     isConnected |-> TRUE, isLoading |-> FALSE, error |-> Null]

\* the catch block reporting the fallback text whatever the failure carries
connectFailureGeneric(prev, err) ==
    [prev EXCEPT !.isLoading = FALSE, !.error = Some("Failed to connect wallet")]

connectFailure(prev, err) ==
    [prev EXCEPT !.isLoading = FALSE,
                 !.error = IF TruthyStr(err.message) THEN err.message
                           ELSE Some("Failed to connect wallet")]

\* the guard with && in place of ||
signGuardAll(prov, st) == prov = Null /\ ~TruthyStr(st.address) /\ ~TruthyNum(st.chainId)

signGuard(prov, st) == prov = Null \/ ~TruthyStr(st.address) \/ ~TruthyNum(st.chainId)

signNotConnected(prev) == [prev EXCEPT !.error = Some("Wallet not connected")]

signStart(prev) == [prev EXCEPT !.isLoading = TRUE, !.error = Null]

signSuccess(prev) == [prev EXCEPT !.isLoading = FALSE]

\* the user-decline test on the wrong EIP-1193 code (4100: unauthorized)
signErrorMsgWrongCode(err) ==
    IF err.code = Some(4100) THEN "Signature rejected by user"
    ELSE "Failed to sign message"

signErrorMsg(err) ==
    IF err.code = Some(4001) THEN "Signature rejected by user"
    ELSE "Failed to sign message"

\* a failure handler that also drops the connection
signFailureDisconnects(prev, err) ==
    [prev EXCEPT !.isLoading = FALSE, !.error = Some(signErrorMsg(err)),
                 !.isConnected = FALSE]

signFailure(prev, err) ==
    [prev EXCEPT !.isLoading = FALSE, !.error = Some(signErrorMsg(err))]

\* disconnect written as a partial update that forgets isLoading and error
disconnectPartial ==
    [state |-> [state EXCEPT !.address = Null, !.chainId = Null, !.isConnected = FALSE],
     provider |-> Null]

disconnect == [state |-> InitialState, provider |-> Null]

\* the listener without its length test: accounts[0] of an empty list is undefined
accountsChangedUnchecked(prev, prov, accounts) ==
    [state |-> [prev EXCEPT !.address = IF Len(accounts) = 0 THEN Null
                                        ELSE Some(accounts[1])],
     provider |-> prov]

\* the listener resetting the record itself and keeping the provider handle
accountsChangedKeepsProvider(prev, prov, accounts) ==
    IF Len(accounts) = 0 THEN [state |-> InitialState, provider |-> prov]
    ELSE [state |-> [prev EXCEPT !.address = Some(accounts[1])], provider |-> prov]

\* the listener taking the last reported account and clearing the error
accountsChangedLast(prev, prov, accounts) ==
    IF Len(accounts) = 0 THEN disconnect
    ELSE [state |-> [prev EXCEPT !.address = Some(accounts[Len(accounts)]), !.error = Null],
          provider |-> prov]

accountsChanged(prev, prov, accounts) ==
    IF Len(accounts) = 0 THEN disconnect
    ELSE [state |-> [prev EXCEPT !.address = Some(accounts[1])], provider |-> prov]

----------------------------------------------------------------------------
\* Calls suspended at an await

ConnectOp(caller) ==
    [kind |-> "connect", pc |-> "accounts", caller |-> caller,
     accounts |-> <<>>, address |-> Null, chainId |-> Null, message |-> <<>>]

\* signMessage keeps the address and chain id of the render it was called from
SignOp(caller, st) ==
    [kind |-> "sign", pc |-> "signer", caller |-> caller,
     accounts |-> <<>>, address |-> st.address, chainId |-> st.chainId,
     message |-> <<>>]

Add(bag, op) == bag (+) SetToBag({op})
Remove(bag, op) == bag (-) SetToBag({op})
InFlight == BagToSet(ops)
Room == BagCardinality(ops) < MaxOps

\* a connect that never calls setProvider
NewProviderForgotten == Null

NewProvider == Some("BrowserProvider")

\* result: what signMessage returned to its caller, when the event made it return
Event(op, result) ==
    [op |-> op, wasConnected |-> state.isConnected, result |-> result,
     repeat |-> (last.op = op)]

----------------------------------------------------------------------------
\* What is on screen

\* variant A: the connected card of AuthPage
ConnectedView == state.isConnected /\ TruthyStr(state.address) /\ TruthyNum(state.chainId)

ModalShown ==
    IF variant = "A" THEN showModal
    ELSE authStatus # "authenticated" /\ showModal

ConnectButtonShown ==
    IF variant = "A" THEN ~ConnectedView /\ ~state.isLoading
    ELSE authStatus # "authenticated"

SignButtonShown ==
    variant = "A" /\ ConnectedView /\ authStatus # "authenticated" /\ ~state.isLoading

\* the Network row: of the connected card (A), of the Dashboard (B)
NetworkShown ==
    IF variant = "A" THEN ConnectedView ELSE authStatus = "authenticated"

\* its text: getNetworkName(chainId), in B only for a truthy chainId
NetworkLabel ==
    IF TruthyNum(state.chainId) THEN getNetworkName(Val(state.chainId)) ELSE ""

DisconnectButtonShown ==
    IF variant = "A" THEN ConnectedView /\ ~state.isLoading
    ELSE authStatus = "authenticated" /\ ~state.isLoading

----------------------------------------------------------------------------
\* Auth Status Controller

\* handleSignIn (A) / handleAutoSign (B) up to the first await of signMessage:
\* the guard of signMessage returns null at once, otherwise the call suspends
handleSignIn(st, prov, auth) ==
    IF signGuard(prov, st)
    THEN [state |-> signNotConnected(st), authStatus |-> "idle", started |-> EmptyBag]
    ELSE [state |-> signStart(st), authStatus |-> "signing",
          started |-> SetToBag({SignOp("auth", st)})]

\* the effect of AppContent (B) has [isConnected] as its dependencies
effectScheduled(wasConnected, isConnected) == variant = "B" /\ wasConnected # isConnected

\* the body of that effect
autoSignEffect(st, prov, auth) ==
    IF st.isConnected /\ auth = "idle"
    THEN handleSignIn(st, prov, auth)
    ELSE [state |-> st, authStatus |-> auth, started |-> EmptyBag]

\* the continuation of handleSignIn / handleAutoSign after signMessage returned
afterSign(caller, auth, result) ==
    IF caller # "auth" THEN auth
    ELSE IF result # Null /\ Val(result) # "" THEN "authenticated" ELSE "idle"

\* the continuation of handleConnect (WalletModal) after connect returned
afterConnect(caller, modal) == IF caller = "modal" THEN FALSE ELSE modal

\* handleDisconnect (A) resets the status, the Dashboard button (B) calls disconnect only
afterDisconnect(auth) == IF variant = "A" THEN "idle" ELSE auth

----------------------------------------------------------------------------
\* Initial state: the page has just loaded

Init ==
    /\ variant \in {"A", "B"}
    /\ hasEthereum \in BOOLEAN
    /\ mounted = TRUE
    /\ state = InitialState
    /\ provider = Null
    /\ authStatus = "idle"
    /\ showModal = FALSE
    /\ ops = EmptyBag
    /\ effectPending = FALSE
    /\ last = [op |-> "load", wasConnected |-> FALSE, result |-> Null, repeat |-> FALSE]

\* listeners that outlive the component
ReadyAfterUnmount == ~effectPending

\* an event is dispatched only to a mounted tree whose effects have run
Ready == mounted /\ ~effectPending

----------------------------------------------------------------------------
\* connect(walletType)

Connect(walletType, caller) ==
    /\ Ready
    /\ IF ~hasEthereum
       THEN /\ state' = connectFailure(connectStart(state), ProviderMissing(walletType))
            /\ showModal' = afterConnect(caller, showModal)
            /\ ops' = ops
            /\ last' = Event("connectNoProvider", Null)
       ELSE /\ Room
            /\ state' = connectStart(state)
            /\ ops' = Add(ops, ConnectOp(caller))
            /\ showModal' = showModal
            /\ last' = Event("connectStart", Null)
    /\ UNCHANGED <<variant, hasEthereum, mounted, provider, authStatus, effectPending>>

\* provider.send("eth_requestAccounts") resolves (EIP-1102: with a non-empty list)
ConnectAccountsOk(op, accounts) ==
    /\ Ready
    /\ op \in InFlight /\ op.kind = "connect" /\ op.pc = "accounts"
    /\ ops' = Add(Remove(ops, op), [op EXCEPT !.pc = "network", !.accounts = accounts])
    /\ last' = Event("accountsOk", Null)
    /\ UNCHANGED <<variant, hasEthereum, mounted, state, provider, authStatus, showModal, effectPending>>

\* provider.getNetwork() resolves: setProvider, return, setState of connect,
\* then the continuation of the caller and the effects of the next render
ConnectNetworkOk(op, network) ==
    /\ Ready
    /\ op \in InFlight /\ op.kind = "connect" /\ op.pc = "network"
    /\ state' = connectSuccess(connectResult(op.accounts, network))
    /\ provider' = NewProvider
    /\ ops' = Remove(ops, op)
    /\ showModal' = afterConnect(op.caller, showModal)
    /\ effectPending' = effectScheduled(state.isConnected, TRUE)
    /\ last' = Event("connectOk", Null)
    /\ UNCHANGED <<variant, hasEthereum, mounted, authStatus>>

\* the account request or the network query rejects
ConnectFail(op, err) ==
    /\ Ready
    /\ op \in InFlight /\ op.kind = "connect"
    /\ state' = connectFailure(state, err)
    /\ ops' = Remove(ops, op)
    /\ showModal' = afterConnect(op.caller, showModal)
    /\ last' = Event("connectFail", Null)
    /\ UNCHANGED <<variant, hasEthereum, mounted, provider, authStatus, effectPending>>

----------------------------------------------------------------------------
\* signMessage()

\* signMessage called by a consumer of the context other than the Auth Status
\* Controller: the same call without the status continuation
SignMessage ==
    /\ Ready
    /\ IF signGuard(provider, state)
       THEN /\ state' = signNotConnected(state)
            /\ ops' = ops
            /\ last' = Event("signRefused", Null)
       ELSE /\ Room
            /\ state' = signStart(state)
            /\ ops' = Add(ops, SignOp("api", state))
            /\ last' = Event("signStart", Null)
    /\ UNCHANGED <<variant, hasEthereum, mounted, provider, authStatus, showModal, effectPending>>

\* provider.getSigner() resolves; the challenge is built and handed to the signer
SignerOk(op) ==
    /\ Ready
    /\ op \in InFlight /\ op.kind = "sign" /\ op.pc = "signer"
    /\ \E nonce \in Nonces, issuedAt \in Timestamps :
         ops' = Add(Remove(ops, op),
                    [op EXCEPT !.pc = "signature",
                               !.message = generateSiweMessage(Val(op.address), Val(op.chainId),
                                                               nonce, issuedAt)])
    /\ last' = Event("signerOk", Null)
    /\ UNCHANGED <<variant, hasEthereum, mounted, state, provider, authStatus, showModal, effectPending>>

\* signer.signMessage(message) resolves with the signature
SignatureOk(op) ==
    /\ Ready
    /\ op \in InFlight /\ op.kind = "sign" /\ op.pc = "signature"
    /\ state' = signSuccess(state)
    /\ authStatus' = afterSign(op.caller, authStatus, Some(Signature))
    /\ ops' = Remove(ops, op)
    /\ last' = Event("signOk", Some(Signature))
    /\ UNCHANGED <<variant, hasEthereum, mounted, provider, showModal, effectPending>>

\* getSigner() or signer.signMessage() rejects
SignFail(op, err) ==
    /\ Ready
    /\ op \in InFlight /\ op.kind = "sign"
    /\ state' = signFailure(state, err)
    /\ authStatus' = afterSign(op.caller, authStatus, Null)
    /\ ops' = Remove(ops, op)
    /\ last' = Event("signFail", Null)
    /\ UNCHANGED <<variant, hasEthereum, mounted, provider, showModal, effectPending>>

----------------------------------------------------------------------------
\* disconnect() and the wallet notifications

\* a disconnect that raises the loading flag when it clears a stale error
DisconnectStrict ==
    /\ Ready
    /\ state' = IF state.isConnected \/ state.isLoading \/ state.error = Null
                THEN disconnect.state
                ELSE [disconnect.state EXCEPT !.isLoading = TRUE]
    /\ provider' = disconnect.provider
    /\ effectPending' = effectScheduled(state.isConnected, FALSE)
    /\ last' = Event("disconnect", Null)
    /\ UNCHANGED <<variant, hasEthereum, mounted, authStatus, showModal, ops>>

Disconnect ==
    /\ Ready
    /\ state' = disconnect.state
    /\ provider' = disconnect.provider
    /\ effectPending' = effectScheduled(state.isConnected, FALSE)
    /\ last' = Event("disconnect", Null)
    /\ UNCHANGED <<variant, hasEthereum, mounted, authStatus, showModal, ops>>

\* the accountsChanged listener, registered at mount when window.ethereum exists
AccountsChanged(accounts) ==
    /\ Ready /\ hasEthereum
    /\ LET next == accountsChanged(state, provider, accounts)
       IN /\ state' = next.state
          /\ provider' = next.provider
          /\ effectPending' = effectScheduled(state.isConnected, next.state.isConnected)
    /\ last' = Event(IF Len(accounts) = 0 THEN "accountsEmpty" ELSE "accountsChanged", Null)
    /\ UNCHANGED <<variant, hasEthereum, mounted, authStatus, showModal, ops>>

\* a chainChanged listener that records the new chain and keeps the page
ChainChangedInPlace ==
    /\ Ready /\ hasEthereum
    /\ \E n \in ChainIds : state' = [state EXCEPT !.chainId = Some(n)]
    /\ last' = Event("reload", Null)
    /\ UNCHANGED <<variant, hasEthereum, mounted, provider, authStatus, showModal, ops,
                   effectPending>>

\* the chainChanged listener: window.location.reload() starts the page afresh
ChainChanged ==
    /\ Ready /\ hasEthereum
    /\ state' = InitialState
    /\ provider' = Null
    /\ authStatus' = "idle"
    /\ showModal' = FALSE
    /\ ops' = EmptyBag
    /\ effectPending' = FALSE
    /\ last' = Event("reload", Null)
    /\ UNCHANGED <<variant, hasEthereum, mounted>>

\* the cleanup of the effect: removeAllListeners; updates of an unmounted
\* component are dropped, so the suspended calls have no further effect
Unmount ==
    /\ Ready
    /\ mounted' = FALSE
    /\ ops' = EmptyBag
    /\ effectPending' = FALSE
    /\ last' = Event("unmount", Null)
    /\ UNCHANGED <<variant, hasEthereum, state, provider, authStatus, showModal>>

----------------------------------------------------------------------------
\* The user-facing triggers

OpenModal ==
    /\ Ready /\ ConnectButtonShown /\ ~showModal
    /\ showModal' = TRUE
    /\ last' = Event("openModal", Null)
    /\ UNCHANGED <<variant, hasEthereum, mounted, state, provider, authStatus, ops, effectPending>>

CloseModal ==
    /\ Ready /\ ModalShown /\ ~state.isLoading
    /\ showModal' = FALSE
    /\ last' = Event("closeModal", Null)
    /\ UNCHANGED <<variant, hasEthereum, mounted, state, provider, authStatus, ops, effectPending>>

\* handleConnect of WalletModal
ClickWallet(walletType) ==
    /\ Ready /\ ModalShown /\ ~state.isLoading
    /\ Connect(walletType, "modal")

\* the sign button of AuthPage (A)
ClickSignIn ==
    /\ Ready /\ SignButtonShown
    /\ LET next == handleSignIn(state, provider, authStatus)
       IN /\ next.started # EmptyBag => Room
          /\ state' = next.state
          /\ authStatus' = next.authStatus
          /\ ops' = ops (+) next.started
    /\ last' = Event("clickSign", Null)
    /\ UNCHANGED <<variant, hasEthereum, mounted, provider, showModal, effectPending>>

\* handleDisconnect of AuthPage (A), the disconnect button of Dashboard (B)
ClickDisconnect ==
    /\ Ready /\ DisconnectButtonShown
    /\ state' = disconnect.state
    /\ provider' = disconnect.provider
    /\ authStatus' = afterDisconnect(authStatus)
    /\ effectPending' = effectScheduled(state.isConnected, FALSE)
    /\ last' = Event("clickDisconnect", Null)
    /\ UNCHANGED <<variant, hasEthereum, mounted, showModal, ops>>

\* the effect of AppContent (B) runs: handleAutoSign when the wallet has just
\* connected and the status is idle
RunEffect ==
    /\ mounted /\ effectPending
    /\ LET next == autoSignEffect(state, provider, authStatus)
       IN /\ next.started # EmptyBag => Room
          /\ state' = next.state
          /\ authStatus' = next.authStatus
          /\ ops' = ops (+) next.started
    /\ effectPending' = FALSE
    /\ last' = Event("effect", Null)
    /\ UNCHANGED <<variant, hasEthereum, mounted, provider, showModal>>

----------------------------------------------------------------------------
\* The wallet answers a suspended call

WalletResponse ==
    \E op \in InFlight :
        \/ \E accounts \in NonEmptyAccountLists : ConnectAccountsOk(op, accounts)
        \/ \E network \in ChainIds : ConnectNetworkOk(op, network)
        \/ \E err \in WalletErrors : ConnectFail(op, err)
        \/ SignerOk(op)
        \/ SignatureOk(op)
        \/ \E err \in WalletErrors : SignFail(op, err)

WalletNotification ==
    \/ \E accounts \in AccountLists : AccountsChanged(accounts)
    \/ ChainChanged

UserAction ==
    \/ OpenModal
    \/ CloseModal
    \/ \E w \in {"metamask", "walletconnect"} : ClickWallet(w)
    \/ ClickSignIn
    \/ ClickDisconnect

\* the application as shipped: every operation starts from a button or an effect
Next ==
    \/ RunEffect
    \/ UserAction
    \/ WalletResponse
    \/ WalletNotification
    \/ Unmount

Spec == Init /\ [][Next]_vars

\* the shipped pages with a wallet that may be on any of six chains
OtherChainIds == {5, 999, 80001, 11155111}

WalletOnOtherChain ==
    \E op \in InFlight, network \in OtherChainIds : ConnectNetworkOk(op, network)

NextChains ==
    \/ Next
    \/ WalletOnOtherChain

SpecChains == Init /\ [][NextChains]_vars

\* the WalletProvider under any consumer of its context: the three operations
\* of WalletContextType may also be called whatever is on screen
ContextCall ==
    \/ \E w \in {"metamask", "walletconnect"} : Connect(w, "api")
    \/ SignMessage
    \/ Disconnect

NextOpen ==
    \/ Next
    \/ ContextCall

SpecOpen == Init /\ [][NextOpen]_vars

----------------------------------------------------------------------------
\* Properties

\* C1: in every reachable WalletState, isConnected = true implies that address
\* and chainId are both non-null, whatever arrives while a call is in flight.
ConnectedHasAddressAndChain ==
    state.isConnected => state.address # Null /\ state.chainId # Null

\* an account change reaches a connected wallet while a call is in flight
ConnectedAccountChangeInFlight ==
    state.isConnected /\ last.op = "accountsChanged" /\ ops # EmptyBag

\* C2: immediately after any call of disconnect() (from a consumer, from a
\* disconnect button, from the listener on an empty account list) WalletState
\* is exactly the initial record and the provider handle is null.
DisconnectYieldsInitialState ==
    last.op \in {"disconnect", "clickDisconnect", "accountsEmpty"} =>
        /\ state = [address |-> Null, chainId |-> Null, isConnected |-> FALSE,
                    isLoading |-> FALSE, error |-> Null]
        /\ provider = Null

\* disconnect() has just been called on a connected wallet with a call in flight
DisconnectedWhileInFlight ==
    last.op = "disconnect" /\ last.wasConnected /\ ops # EmptyBag

\* C4: signMessage() called while isConnected = false returns null, sets error
\* to "Wallet not connected", starts no loading phase and no provider call, and
\* leaves address, chainId, isConnected (and isLoading) as they were.
SignRefusedWhenDisconnected ==
    [][((SignMessage \/ ClickSignIn) /\ ~state.isConnected) =>
        /\ last'.op = "signRefused" /\ last'.result = Null
        /\ state'.error = Some("Wallet not connected")
        /\ state'.isLoading = state.isLoading
        /\ state'.address = state.address
        /\ state'.chainId = state.chainId
        /\ state'.isConnected = state.isConnected
        /\ ops' = ops /\ provider' = provider]_vars

\* signMessage() was refused on a disconnected wallet that still shows an address
SignRefusedSeen ==
    /\ last.op = "signRefused" /\ ~last.wasConnected
    /\ state.address # Null /\ state.error = Some("Wallet not connected")

\* C7: a connect whose provider calls all succeed ends with address = the first
\* account returned, chainId = the chain id returned, isConnected = true,
\* isLoading = false, error = null, and the provider handle set.
ConnectSuccessState ==
    [][\A op \in InFlight : \A network \in ChainIds :
        ConnectNetworkOk(op, network) =>
            /\ state' = [address |-> Some(Head(op.accounts)), chainId |-> Some(network),
                         isConnected |-> TRUE, isLoading |-> FALSE, error |-> Null]
            /\ provider' # Null]_vars

\* a connect that was answered with two accounts has just succeeded
ConnectSucceededSeen ==
    /\ last.op = "connectOk" /\ ~last.wasConnected
    /\ state.isConnected /\ state.address = Some("0xBBBB") /\ provider # Null

\* C9: a signMessage() past its guard whose signer request (or signer retrieval)
\* fails returns null with isLoading = false and error = "Signature rejected by
\* user" for the code 4001, "Failed to sign message" for every other failure.
SignFailureClassified ==
    [][\A op \in InFlight : \A err \in WalletErrors :
        SignFail(op, err) =>
            /\ last'.result = Null
            /\ state'.isLoading = FALSE
            /\ state'.error = Some(IF err.code = Some(4001)
                                   THEN "Signature rejected by user"
                                   ELSE "Failed to sign message")]_vars

\* the user has just declined a signature
SignRejectedSeen ==
    last.op = "signFail" /\ state.error = Some("Signature rejected by user")

\* C10: an empty account-change notification on a connected wallet leaves
\* WalletState and the provider handle exactly as disconnect() would.
EmptyAccountsAsDisconnect ==
    [][(AccountsChanged(<<>>) /\ state.isConnected) =>
        (state' = disconnect.state /\ provider' = disconnect.provider)]_vars

\* an empty account list has just disconnected a connected wallet
EmptyAccountsSeen ==
    last.op = "accountsEmpty" /\ last.wasConnected /\ ~state.isConnected

\* C3: after every disconnect of the wallet (the disconnect button of AuthPage,
\* the disconnect button of Dashboard, an empty account-change notification)
\* AuthStatus is idle.
DisconnectForcesIdle ==
    last.op \in {"clickDisconnect", "accountsEmpty"} => authStatus = "idle"

\* C5: AuthStatus changes only along idle -> signing, signing -> authenticated,
\* signing -> idle and any -> idle; it never moves from idle to authenticated.
AuthLifecycle ==
    [][authStatus' # authStatus =>
        <<authStatus, authStatus'>> \in
            {<<"idle", "signing">>, <<"signing", "authenticated">>,
             <<"signing", "idle">>, <<"authenticated", "idle">>}]_vars

\* C6: from every state with isConnected = true, AuthStatus = idle and no call
\* in flight, a user-facing trigger that starts a sign attempt is enabled.
RetrySignEnabled ==
    (Ready /\ state.isConnected /\ authStatus = "idle" /\ ops = EmptyBag) =>
        ENABLED ClickSignIn

\* what a failed connect reports: the message of the failure, or the fallback
ConnectErrorText(err) ==
    IF err.message # Null /\ Val(err.message) # "" THEN Val(err.message)
    ELSE "Failed to connect wallet"

\* C8 as claimed: a connect in which any step throws ends with isConnected =
\* false, isLoading = false and error = the message of the failure or the
\* fallback text, whatever the state was.
ConnectFailureDisconnects ==
    [][/\ \A op \in InFlight : \A err \in WalletErrors :
            ConnectFail(op, err) =>
                /\ ~state'.isConnected /\ ~state'.isLoading
                /\ state'.error = Some(ConnectErrorText(err))
       /\ \A w \in {"metamask", "walletconnect"} : \A c \in {"modal", "api"} :
            (Connect(w, c) /\ ~hasEthereum) =>
                /\ ~state'.isConnected /\ ~state'.isLoading
                /\ state'.error = Some(ConnectErrorText(ProviderMissing(w)))]_vars

\* C8 as amended: a connect in which any step throws sets isLoading = false and
\* error = the message of the failure or the fallback text, and leaves address,
\* chainId and isConnected as they were when the failure was handled.
ConnectFailureKeepsConnection ==
    [][/\ \A op \in InFlight : \A err \in WalletErrors :
            ConnectFail(op, err) =>
                state' = [address |-> state.address, chainId |-> state.chainId,
                          isConnected |-> state.isConnected, isLoading |-> FALSE,
                          error |-> Some(ConnectErrorText(err))]
       /\ \A w \in {"metamask", "walletconnect"} : \A c \in {"modal", "api"} :
            (Connect(w, c) /\ ~hasEthereum) =>
                state' = [address |-> state.address, chainId |-> state.chainId,
                          isConnected |-> state.isConnected, isLoading |-> FALSE,
                          error |-> Some(ConnectErrorText(ProviderMissing(w)))]]_vars

\* a connect has just failed on a wallet that was and stays connected
ConnectFailedWhileConnected ==
    /\ last.op = "connectFail" /\ last.wasConnected /\ state.isConnected
    /\ ~state.isLoading /\ state.error = Some("User rejected the request.")

\* C11: isLoading is true in every state in which a connect or a sign call is
\* outstanding, whatever else happens while it is in flight.
LoadingWhileInFlight ==
    (mounted /\ ops # EmptyBag) => state.isLoading

\* C12: when every operation starts from a button or from the auto-sign
\* effect, at most one connect or sign call is in flight at a time.
OneOperationInFlight ==
    BagCardinality(ops) <= 1

\* C13: address and chainId are null in every state in which isConnected is
\* false.
DisconnectedHasNoAddress ==
    ~state.isConnected => (state.address = Null /\ state.chainId = Null)

\* C14: an account-change notification with a non-empty list sets address to
\* the first reported account and leaves chainId, isConnected, isLoading, error
\* and the provider handle unchanged.
AccountChangeFrame ==
    [][\A accounts \in NonEmptyAccountLists :
        AccountsChanged(accounts) =>
            /\ state' = [address |-> Some(Head(accounts)), chainId |-> state.chainId,
                         isConnected |-> state.isConnected,
                         isLoading |-> state.isLoading, error |-> state.error]
            /\ provider' = provider]_vars

\* a two-account list has just reached a connected wallet that shows an error
AccountChangedSeen ==
    /\ last.op = "accountsChanged" /\ state.address = Some("0xBBBB")
    /\ state.isConnected /\ state.chainId # Null /\ state.error # Null

\* C15: disconnect() is idempotent: a disconnect() called right after a
\* disconnect() changes neither the wallet state nor the provider handle, so
\* calling it twice in a row leaves what calling it once leaves.
DisconnectIdempotent ==
    [][(last.op = "disconnect" /\ Disconnect) =>
        (state' = state /\ provider' = provider)]_vars

\* disconnect() has just been called twice in a row while a call is in flight
DisconnectedTwice ==
    /\ last.op = "disconnect" /\ last.repeat /\ ~last.wasConnected
    /\ state = InitialState /\ provider = Null /\ ops # EmptyBag

\* C16: a connect of either wallet type without an injected provider fails at
\* once: no provider call is started, the provider handle stays unset,
\* isConnected is false, isLoading ends false and error is the message of the
\* wallet type.
ConnectFailsFastWithoutProvider ==
    [][\A walletType \in {"metamask", "walletconnect"}, caller \in {"modal", "api"} :
        (~hasEthereum /\ Connect(walletType, caller)) =>
            /\ ops' = ops
            /\ provider = Null /\ provider' = Null
            /\ ~state'.isConnected /\ ~state'.isLoading
            /\ state'.error =
                 IF walletType = "walletconnect"
                 THEN Some("WalletConnect requires a Web3 provider. Install MetaMask as fallback.")
                 ELSE Some("MetaMask is not installed. Please install MetaMask to continue.")]_vars

\* a WalletConnect connect has just failed for want of an injected provider
WalletConnectFailedFast ==
    /\ ~hasEthereum /\ last.op = "connectNoProvider"
    /\ state.error = Some("WalletConnect requires a Web3 provider. Install MetaMask as fallback.")

\* C17: once the provider component has unmounted its listeners are gone, so
\* no account-change or chain-change notification can change the wallet state
\* or reload the page; while it is mounted and an injected provider was present
\* at mount, both notifications are handled (as soon as a pending effect has run).
ListenersFollowMount ==
    /\ ~mounted => ~ENABLED WalletNotification
    /\ (mounted /\ hasEthereum /\ ~effectPending) =>
         /\ \A accounts \in AccountLists : ENABLED AccountsChanged(accounts)
         /\ ENABLED ChainChanged

\* the component has just unmounted with a connected wallet and an injected provider
UnmountedWhileConnected ==
    ~mounted /\ hasEthereum /\ last.op = "unmount" /\ state.isConnected

\* C18: a chain-change notification received while mounted reloads the page:
\* the wallet state, the provider handle and the auth status are back at their
\* initial values and chainId is not updated in place; apart from that reload,
\* chainId changes only in a successful connect or in a disconnect.
ChainChangeReloads ==
    [][/\ ChainChanged =>
            /\ state' = [address |-> Null, chainId |-> Null, isConnected |-> FALSE,
                         isLoading |-> FALSE, error |-> Null]
            /\ provider' = Null
            /\ authStatus' = "idle"
       /\ state'.chainId # state.chainId =>
            last'.op \in {"reload", "connectOk", "disconnect", "clickDisconnect",
                          "accountsEmpty"}]_vars

\* the chain changed under a connected wallet and the page has started afresh
ReloadedWhileConnected ==
    /\ last.op = "reload" /\ last.wasConnected
    /\ state.chainId = Null /\ ~state.isConnected /\ provider = Null /\ authStatus = "idle"

\* C19: the challenge handed to the signer has, in this order, the host line,
\* the address passed in verbatim as its second line, the statement, the URI
\* line, the line "Version: 1", the line "Chain ID: " followed by the chain id
\* passed in, the Nonce line and the Issued At line.
ChallengeLines ==
    \A op \in InFlight :
        (op.kind = "sign" /\ op.pc = "signature") =>
            LET m == op.message
                n == Val(op.chainId)
            IN /\ Len(m) = 10
               /\ m[1] = "localhost:3000 wants you to sign in with your Ethereum account:"
               /\ m[2] = Val(op.address)
               /\ m[3] = "" /\ m[4] = "Sign in to verify your wallet ownership" /\ m[5] = ""
               /\ m[6] = "URI: http://localhost:3000"
               /\ m[7] = "Version: 1"
               /\ m[8] = CASE n = 1 -> "Chain ID: 1"
                           [] n = 5 -> "Chain ID: 5"
                           [] n = 137 -> "Chain ID: 137"
                           [] n = 999 -> "Chain ID: 999"
                           [] n = 80001 -> "Chain ID: 80001"
                           [] n = 11155111 -> "Chain ID: 11155111"
               /\ \E nonce \in Nonces : m[9] = "Nonce: " \o nonce
               /\ \E issuedAt \in Timestamps : m[10] = "Issued At: " \o issuedAt

\* a challenge for the second account on Sepolia is with the signer
SepoliaChallengeWithSigner ==
    \E op \in InFlight :
        /\ op.kind = "sign" /\ op.pc = "signature"
        /\ op.address = Some("0xBBBB") /\ op.chainId = Some(11155111)
        /\ op.message[2] = "0xBBBB" /\ op.message[8] = "Chain ID: 11155111"

\* C20: the Network row shows "Ethereum Mainnet" for chain id 1, "Goerli" for
\* 5, "Sepolia" for 11155111, "Polygon" for 137, "Mumbai" for 80001 and
\* "Chain n" for every other chain id n.
NetworkLabelTable ==
    (NetworkShown /\ state.chainId # Null) =>
        LET n == Val(state.chainId)
        IN /\ n = 1 => NetworkLabel = "Ethereum Mainnet"
           /\ n = 5 => NetworkLabel = "Goerli"
           /\ n = 11155111 => NetworkLabel = "Sepolia"
           /\ n = 137 => NetworkLabel = "Polygon"
           /\ n = 80001 => NetworkLabel = "Mumbai"
           /\ n = 999 => NetworkLabel = "Chain 999"
           /\ n \notin {1, 5, 11155111, 137, 80001} =>
                NetworkLabel = "Chain " \o ToString(n)

\* the Network row of a wallet on a chain that is not in the table
UnknownChainShown ==
    NetworkShown /\ state.chainId = Some(999) /\ NetworkLabel = "Chain 999"

\* C21: the challenge handed to the signer carries the address and the chain id
\* that the wallet state holds at the moment the signature is requested, also
\* when an account change arrived while the signer was being obtained.
ChallengeUsesCurrentAccount ==
    [][\A op \in InFlight :
        SignerOk(op) =>
            \E requested \in BagToSet(ops') :
                /\ requested.kind = "sign" /\ requested.pc = "signature"
                /\ requested.caller = op.caller
                /\ requested.address = op.address /\ requested.chainId = op.chainId
                /\ state.address # Null /\ state.chainId # Null
                /\ requested.message[2] = Val(state.address)
                /\ requested.message[8] = "Chain ID: " \o ToString(Val(state.chainId))]_vars

\* C22: a signMessage() that completes, with a signature or with a failure,
\* writes only isLoading and error: address, chainId, isConnected and the
\* provider handle are as they were when it completed, so a failed signature
\* never disconnects the wallet.
SignCompletionFrame ==
    [][\A op \in InFlight :
        (SignatureOk(op) \/ \E err \in WalletErrors : SignFail(op, err)) =>
            /\ state'.address = state.address
            /\ state'.chainId = state.chainId
            /\ state'.isConnected = state.isConnected
            /\ provider' = provider]_vars

\* a signature has just failed on a connected wallet, which is still connected
SignFailedStillConnected ==
    /\ last.op = "signFail" /\ last.wasConnected
    /\ state.isConnected /\ state.address # Null /\ state.chainId # Null
    /\ provider # Null /\ state.error # Null

\* C23: whenever the auth status is authenticated the wallet is connected and
\* its address is the one the most recent successful signature was obtained
\* for: a step that ends authenticated ends connected, ends with the address
\* of the challenge just signed if it is a signature, and otherwise keeps the
\* address.
AuthenticatedAccountSigned ==
    [][authStatus' = "authenticated" =>
        /\ state'.isConnected
        /\ IF \E op \in InFlight : SignatureOk(op)
           THEN \E op \in InFlight : SignatureOk(op) /\ state'.address = Some(op.message[2])
           ELSE state'.address = state.address]_vars

\* C24: a connect started before a disconnect never connects the wallet after
\* it. Right after a disconnect (explicit or by an empty account change) every
\* connect in flight was started before it, so a connect that completes as the
\* next event must leave isConnected false and the provider handle null.
StaleConnectStaysDisconnected ==
    [][(/\ last.op \in {"disconnect", "clickDisconnect", "accountsEmpty"}
        /\ \E op \in InFlight, network \in ChainIds : ConnectNetworkOk(op, network)) =>
            (~state'.isConnected /\ provider' = Null)]_vars

\* C25: in every state with isConnected = true the provider handle is
\* non-null, so a signMessage() invoked in a connected state with non-null
\* address and chainId starts a loading phase (a call is suspended at the
\* wallet, isLoading is true) and does not report "Wallet not connected".
ConnectedCanSign ==
    [][/\ state'.isConnected => provider' # Null
       /\ (/\ state.isConnected /\ state.address # Null /\ state.chainId # Null
           /\ (SignMessage \/ ClickSignIn \/ (RunEffect /\ authStatus = "idle"))) =>
            /\ provider # Null
            /\ state'.isLoading
            /\ state'.error # Some("Wallet not connected")
            /\ BagCardinality(ops') = BagCardinality(ops) + 1]_vars

\* signMessage() has just been invoked on a connected wallet and is waiting
\* for the signer
SignStartedWhileConnected ==
    /\ last.op \in {"signStart", "clickSign", "effect"} /\ last.wasConnected
    /\ state.isConnected /\ provider # Null /\ state.isLoading /\ state.error = Null
    /\ \E op \in InFlight : op.kind = "sign" /\ op.pc = "signer"

====
